---- MODULE Spec2Model ----
(***************************************************************************)
(* Model of neuropredict's BaseWorkflow (src/neuropredict/base.py): the     *)
(* repeated-holdout cross-validation engine.  One workflow object is        *)
(* constructed from the command-line arguments (args), run() is called on   *)
(* it, and the process may be started again on the same output directory.   *)
(*                                                                         *)
(* Encodings.                                                              *)
(*  - train_perc is a float in the code; here it is an integer number of    *)
(*    hundredths (50 is 0.50), so np.floor(n * train_perc) is               *)
(*    (n * train_perc) \div 100.                                            *)
(*  - sample ids are 1..N; a data matrix is abstracted to the set of sample *)
(*    ids whose rows it holds (rows) and the set of sample ids whose raw    *)
(*    values it was computed from (deps).                                   *)
(*  - the result file is a sequence of pickled entries ending with a STOP   *)
(*    entry; a file of length 0 is an empty file.                           *)
(***************************************************************************)
EXTENDS Integers, Sequences, FiniteSets, TLC

\* ------------------------------------------------------------------ bounds
MaxSamples == 3
MaxRep == 3
MaxCpus == 2
MaxFeatures == 3

\* ------------------------------------------------------- program constants
\* cfg.DEFAULT_NUM_PROCS, as the help text of --num_procs documents it
DEFAULT_NUM_PROCS == 4

\* cfg.GRIDSEARCH_LEVELS, as the help text of --gs_level lists them
GRIDSEARCH_LEVELS == {"none", "light", "exhaustive"}

\* cfg.results_to_save: the attributes pickled by save() and restored by load()
results_to_save == <<"results", "num_rep_cv", "_train_set_size">>

\* the dataset collection: modality ids in the order get_subsets yields them,
\* and the missing-data flag of each
Modalities == <<"m1", "m2">>

MissingFlag == [m \in {"m1", "m2"} |-> m = "m1"]

\* ------------------------------------------------------ inputs of the model
TrainPercChoices == {0, 1, 99, 100}

GridSearchChoices == {"Light", "bogus"}

\* covariates=None (line 32), the default, and a configured list
NoCovariates == << >>
CovariateChoices == {NoCovariates, <<"age">>}

NumProcsChoices == {1, DEFAULT_NUM_PROCS}

\* ------------------------------------------------------------------ helpers
Range(s) == {s[i] : i \in DOMAIN s}

Min(a, b) == IF a <= b THEN a ELSE b

Max(a, b) == IF a >= b THEN a ELSE b

\* str.lower() on the grid-search levels the model draws
Lower(s) == IF s = "Light" THEN "light" ELSE s

\* dict[key] = value on a function with a finite domain
Put(f, k, v) == [x \in (DOMAIN f) \cup {k} |-> IF x = k THEN v ELSE f[x]]

\* every order random.shuffle can leave the list in
Shuffles(s) == {p \in [1..Len(s) -> Range(s)] : Range(p) = Range(s)}

\* the empty Result Accumulator built by __init__
EmptyResults == [attr |-> << >>, pred |-> << >>]

VARIABLES
    args,            \* the constructor's arguments (the command line)
    pc,              \* position inside run()
    err,             \* the exception run() ended with, "none" if none
    err_msg,         \* what the message of that exception is formatted from
    num_rep_cv,      \* self.num_rep_cv
    num_procs,       \* self.num_procs
    id_list,         \* self._id_list
    train_set_size,  \* self._train_set_size
    results,         \* self.results
    rep,             \* _run_cv's loop variable
    ds_idx,          \* position of _single_run_cv's loop over the modalities
    train_set,       \* _single_run_cv's train_set
    test_set,        \* _single_run_cv's test_set
    disk,            \* the file at self._out_results_path
    ckpt,            \* the file results.dump() writes
    file_at_start,   \* whether a non-empty result file existed as run() began
    io_log,          \* reads and writes of this start, in order
    rep_log,         \* run_ids _single_run_cv was called with in this start
    fit_log,         \* the fits of the modality handled last
    at_save,         \* the attributes as they were when save() last pickled them
    summarized,      \* the records summarize() was last given
    prior,           \* the records an earlier, completed start summarized
    fi_call          \* a call of _get_feature_importance: arguments and return

vars == <<args, pc, err, err_msg, num_rep_cv, num_procs, id_list,
          train_set_size, results, rep, ds_idx, train_set, test_set, disk, ckpt,
          file_at_start, io_log, rep_log, fit_log, at_save, summarized, prior,
          fi_call>>

Universe == 1..args.num_samples

\* ------------------------------------------------- _prepare (lines 81-110)
\* the check of line 88 written as "fewer than 1"
RepetitionsOkOffByOne(n) == ~(n < 1)

RepetitionsOk(n) == ~(n <= 1)

TrainPercOk(tp) == ~(tp <= 0 \/ tp >= 100)

GridSearchOk(level) == Lower(level) \in GRIDSEARCH_LEVELS

\* utils.check_num_procs: the requested count capped at the available count
CheckNumProcs(n, avail) == IF n > avail THEN avail ELSE n

\* line 105 with np.ceil in place of np.floor
TrainSetSizeCeil(n, tp) == Max(1, Min(n, (n * tp + 99) \div 100))

\* line 106 without its lower clamp
TrainSetSizeUnclamped(n, tp) == Min(n, (n * tp) \div 100)

\* np.floor(num_samples * train_perc), then max(1, min(num_samples, .))
TrainSetSize(n, tp) == Max(1, Min(n, (n * tp) \div 100))

\* list(self.datasets.samplet_ids): the sample ids in the dataset's order
SampletIds == [i \in Universe |-> i]

\* ------------------------------------------------ _run_cv (line 173)
\* line 173 with a loop that stops one repetition early
RepetitionIdsShort(n) == 0..(n - 2)

\* range(self.num_rep_cv): the run ids of the sequential loop
RepetitionIds(n) == 0..(n - 1)

\* ---------------------------------------- _single_run_cv (lines 180-182)
\* self._id_list[:self._train_set_size]
TrainSet(ids, size) == SubSeq(ids, 1, Min(size, Len(ids)))

\* line 182 as a slice that starts one element late
TestSetSlicedLate(ids, train) == Range(SubSeq(ids, Len(train) + 2, Len(ids)))

\* list(set(self._id_list) - set(train_set))
TestSet(ids, train) == Range(ids) \ Range(train)

\* ---------------------------------------------------------- the files
\* line 136 with the size test turned around
FileIsEmpty(f) == f.exists /\ Len(f.bytes) = 0

\* pexists(path) and getsize(path) > 0
FileNonEmpty(f) == f.exists /\ Len(f.bytes) > 0

\* getattr(self, var, None) for the attributes of results_to_save
GetAttr(var) ==
    CASE var = "results" -> results
      [] var = "num_rep_cv" -> num_rep_cv
      [] var = "_train_set_size" -> train_set_size

\* { var : getattr(self, var, None) for var in cfg.results_to_save }
OutDict == [var \in Range(results_to_save) |-> GetAttr(var)]

\* pickle.dump of a dict: one entry per key, in order, then the STOP opcode
PickleDump(d) ==
    [i \in 1..(Len(results_to_save) + 1) |->
        IF i <= Len(results_to_save)
        THEN <<results_to_save[i], d[results_to_save[i]]>>
        ELSE <<"STOP">>]

\* pickle.load succeeds on a stream that ends with the STOP opcode
PickleOk(bytes) == Len(bytes) > 0 /\ bytes[Len(bytes)][1] = "STOP"

\* pickle.load: the dict the entries before STOP spell
PickleLoad(bytes) ==
    LET keys == {bytes[i][1] : i \in 1..(Len(bytes) - 1)}
    IN [k \in keys |-> bytes[CHOOSE i \in 1..(Len(bytes) - 1) : bytes[i][1] = k][2]]

\* load()'s loop of setattr: it stops at the first key the dict lacks
FirstMissing(d) ==
    IF \A i \in 1..Len(results_to_save) : results_to_save[i] \in DOMAIN d
    THEN Len(results_to_save) + 1
    ELSE CHOOSE i \in 1..Len(results_to_save) :
            /\ results_to_save[i] \notin DOMAIN d
            /\ \A j \in 1..(i - 1) : results_to_save[j] \in DOMAIN d

\* lines 381-382 with a loop that passes over the results attribute
LoadedButResults(d, var, cur) == IF var = "results" THEN cur ELSE d[var]

\* the value load() leaves in attribute var, whose value was cur
Loaded(d, var, cur) ==
    LET i == CHOOSE j \in 1..Len(results_to_save) : results_to_save[j] = var
    IN IF i < FirstMissing(d) THEN d[var] ELSE cur

NoFile == [exists |-> FALSE, bytes |-> << >>]

NoCheckpoint == [exists |-> FALSE, content |-> EmptyResults]

NoSnapshot == [has |-> FALSE, dict |-> << >>]

NoPrior == [has |-> FALSE, records |-> EmptyResults]

\* ------------------------------ _get_feature_importance (lines 274-294)
\* a fitted step of the pipeline: the attributes it exposes, what
\* get_support(indices=True) returns and what the importance attribute holds
Object(attrs, support, importance) ==
    [kind |-> "object", attrs |-> attrs, support |-> support,
     importance |-> importance]

\* a (name, step) pair, the element of an sklearn Pipeline's steps list
Pair(name, step) == [kind |-> "tuple", name |-> name, step |-> step]

\* the attributes of a Python tuple
TupleAttrs == {"count", "index"}

\* hasattr(x, name)
HasAttr(x, name) ==
    IF x.kind = "tuple" THEN name \in TupleAttrs ELSE name \in x.attrs

\* the pipeline the factory builds: preprocessing, dimensionality reduction,
\* estimator, in this order
Pipeline(preproc, dim_red, est) ==
    [steps |-> <<Pair("preproc", preproc), Pair("dim_red", dim_red),
                 Pair("est", est)>>]

\* cfg.importance_attr: the attribute that holds an estimator's importances
importance_attr ==
    [est_name \in {"randomforestclassifier", "svm"} |->
        IF est_name = "svm" THEN "coef_" ELSE "feature_importances_"]

\* np.nan, the default fill_value (line 275)
NaN == "nan"

\* the return value None (line 285) and a returned array
None == [present |-> FALSE, vec |-> << >>]
Array(vec) == [present |-> TRUE, vec |-> vec]

\* pipeline.steps[1] and pipeline.steps[-1] (lines 281-282); positions of a
\* sequence count from 1 here
StepsAt1(pipeline) == pipeline.steps[2]
StepsLast(pipeline) == pipeline.steps[Len(pipeline.steps)]

\* lines 275-294
GetFeatureImportance(est_name, pipeline, num_features, fill_value) ==
    LET dim_red == StepsAt1(pipeline)
        est == StepsLast(pipeline)
    IN IF HasAttr(dim_red, "get_support")
       THEN LET index_selected_features == dim_red.support
            IN IF HasAttr(est, importance_attr[est_name])
               THEN Array([i \in 1..num_features |->
                        IF \E j \in DOMAIN index_selected_features :
                              index_selected_features[j] = i
                        THEN est.importance[
                                CHOOSE j \in DOMAIN index_selected_features :
                                    index_selected_features[j] = i]
                        ELSE fill_value])
               ELSE None
       ELSE None

\* no call of _get_feature_importance is under way
NoCall == [made |-> FALSE]

\* self._out_results_path (line 108): pjoin(out_dir, cfg.results_file_name)
OutResultsPath == <<"out_dir", "results_file_name">>

\* no message: an exception whose text does not come from save() or load()
NoMessage == [text |-> "", path |-> << >>]

\* lines 358-359 without the path formatted into the text
SaveErrorMessageBare(path) ==
    [text |-> "Error saving the results to disk!", path |-> << >>]

\* the IOError of save() (lines 358-359): a text and the path formatted into it
SaveErrorMessage(path) ==
    [text |-> "Error saving the results to disk! Out path:{}", path |-> path]

\* the IOError of load() (lines 376-377)
LoadErrorMessage(path) ==
    [text |-> "Error load the results from path: {}", path |-> path]

\* ------------------------------------------------------------------- Init
\* __init__ (lines 28-78): the attributes as the constructor leaves them
Init ==
    /\ args \in [num_samples : 1..MaxSamples,
                 train_perc : TrainPercChoices,
                 num_rep_cv : 0..MaxRep,
                 grid_search_level : GridSearchChoices,
                 num_procs : NumProcsChoices,
                 checkpointing : BOOLEAN,
                 covariates : CovariateChoices]
    /\ pc = "start"
    /\ err = "none"
    /\ err_msg = NoMessage
    /\ num_rep_cv = args.num_rep_cv
    /\ num_procs = args.num_procs
    /\ id_list = << >>
    /\ train_set_size = 0
    /\ results = EmptyResults
    /\ rep = 0
    /\ ds_idx = 1
    /\ train_set = << >>
    /\ test_set = {}
    /\ disk \in {NoFile, [exists |-> TRUE, bytes |-> << >>]}
    /\ ckpt = NoCheckpoint
    /\ file_at_start = FALSE
    /\ io_log = << >>
    /\ rep_log = << >>
    /\ fit_log = << >>
    /\ at_save = NoSnapshot
    /\ summarized = EmptyResults
    /\ prior = NoPrior
    /\ fi_call = NoCall

\* run() line 134: _prepare validates, then derives the split size
Prepare ==
    /\ pc = "start"
    /\ file_at_start' = FileNonEmpty(disk)
    /\ err_msg' = NoMessage
    /\ IF ~RepetitionsOk(num_rep_cv) \/ ~TrainPercOk(args.train_perc)
       THEN /\ pc' = "raised"
            /\ err' = "ValueError"
            /\ UNCHANGED <<num_procs, id_list, train_set_size>>
       ELSE /\ \E cpu_count \in 1..MaxCpus :
                 num_procs' = CheckNumProcs(num_procs, cpu_count)
            /\ IF ~GridSearchOk(args.grid_search_level)
               THEN /\ pc' = "raised"
                    /\ err' = "ValueError"
                    /\ UNCHANGED <<id_list, train_set_size>>
               ELSE /\ id_list' = SampletIds
                    /\ train_set_size' = TrainSetSize(Len(SampletIds), args.train_perc)
                    /\ pc' = "prepared"
                    /\ err' = "none"
    /\ UNCHANGED <<fi_call, args, num_rep_cv, results, rep, ds_idx, train_set,
                   test_set, disk, ckpt, io_log, rep_log, fit_log, at_save,
                   summarized, prior>>

\* ------------------------------------------- the stages of one modality
\* a data matrix: the samples its rows belong to, the samples it depends on
Data(rows, deps) == [rows |-> rows, deps |-> deps]

NoData == Data({}, {})

\* what one call of fit() was given: the samples behind X, y and the covariates
Fit(stage, X, y, covar) ==
    [stage |-> stage, X |-> X.deps, y |-> y.deps, covar |-> covar.deps]

Seen(fit) == fit.X \cup fit.y \cup fit.covar

\* transform() of a fitted object: the rows of d, now depending on the fit too
Transform(fit, d) == Data(d.rows, d.deps \cup Seen(fit))

\* datasets.get_subsets((train_set, test_set)) for one modality
GetSubsets(train, test) ==
    [train_data |-> Data(Range(train), Range(train)),
     train_targets |-> Data(Range(train), Range(train)),
     test_data |-> Data(test, test),
     test_targets |-> Data(test, test)]

\* utils.impute_missing_data(train_data, train_targets, strategy, test_data)
ImputeMissingData(train_data, train_targets, test_data) ==
    LET fit == Fit("impute", train_data, train_targets, NoData)
    IN [fits |-> <<fit>>,
        train_data |-> Transform(fit, train_data),
        test_data |-> Transform(fit, test_data)]

\* line 255 with the preprocessor fit on the train and the test rows together
PreprocessDataFitOnAll(train_data, test_data) ==
    LET fit == Fit("preprocess",
                   Data(train_data.rows \cup test_data.rows,
                        train_data.deps \cup test_data.deps), NoData, NoData)
    IN [fits |-> <<fit>>,
        train_data |-> Transform(fit, train_data),
        test_data |-> Transform(fit, test_data)]

\* _preprocess_data (lines 250-256)
PreprocessData(train_data, test_data) ==
    LET fit == Fit("preprocess", train_data, NoData, NoData)
    IN [fits |-> <<fit>>,
        train_data |-> Transform(fit, train_data),
        test_data |-> Transform(fit, test_data)]

\* _get_covariate_data (lines 215-227): gathered and encoded per partition
GetCovariateData(covariates, train, test) ==
    [names |-> covariates,
     train_covar |-> Data(Range(train), Range(train)),
     test_covar |-> Data(test, test)]

\* _deconfound_data (lines 259-271)
DeconfoundData(train_data, train_covar, test_data, test_covar) ==
    LET fit == Fit("deconfound", train_data, NoData, train_covar)
    IN [fits |-> <<fit>>,
        train_data |-> Data(train_data.rows,
                            train_data.deps \cup train_covar.deps \cup Seen(fit)),
        test_data |-> Data(test_data.rows,
                           test_data.deps \cup test_covar.deps \cup Seen(fit))]

\* _optimize_pipeline_on_train_set (lines 230-247) with _optimize_pipeline
\* (lines 297-335): gs.fit(train_data, train_targets)
OptimizePipelineOnTrainSet(train_data, train_targets) ==
    LET fit == Fit("optimize", train_data, train_targets, NoData)
    IN [fits |-> <<fit>>,
        best_pipeline |-> fit,
        feat_importance |-> [seen |-> Seen(fit)]]

\* the body of _single_run_cv's loop up to the optimizer (lines 188-203)
ModalityStages(ds, train, test) ==
    LET sub == GetSubsets(train, test)
        imp == IF MissingFlag[ds]
               THEN ImputeMissingData(sub.train_data, sub.train_targets,
                                      sub.test_data)
               ELSE [fits |-> << >>, train_data |-> sub.train_data,
                     test_data |-> sub.test_data]
        pre == PreprocessData(imp.train_data, imp.test_data)
        cov == GetCovariateData(args.covariates, train, test)
        dec == DeconfoundData(pre.train_data, cov.train_covar,
                              pre.test_data, cov.test_covar)
        opt == OptimizePipelineOnTrainSet(dec.train_data, sub.train_targets)
    IN [fits |-> imp.fits \o pre.fits \o dec.fits \o opt.fits,
        feat_importance |-> opt.feat_importance,
        test_data |-> dec.test_data]

\* lines 205-208 with the repetition left out of the key
RecordKeyByModality(run_id, ds_id) == <<0, ds_id>>

\* the key under which add_attr (line 205) and _eval_predictions (lines
\* 207-208) record a modality's outcome: (run_id, ds_id)
RecordKey(run_id, ds_id) == <<run_id, ds_id>>

\* where a modality's stages may raise: nowhere, in the optimizer's fit, or in
\* _eval_predictions
FailPoints == {"none", "optimize", "eval"}

\* ------------------------------------------------------------ run()
\* run() lines 136-138: a non-empty result file is loaded (load, lines 366-386)
Load ==
    /\ pc = "prepared"
    /\ FileNonEmpty(disk)
    /\ io_log' = Append(io_log, "load")
    /\ \E readable \in BOOLEAN :
         IF readable /\ PickleOk(disk.bytes)
         THEN LET d == PickleLoad(disk.bytes)
              IN /\ results' = Loaded(d, "results", results)
                 /\ num_rep_cv' = Loaded(d, "num_rep_cv", num_rep_cv)
                 /\ train_set_size' = Loaded(d, "_train_set_size", train_set_size)
                 /\ IF FirstMissing(d) > Len(results_to_save)
                    THEN pc' = "summarize" /\ err' = "none"
                    ELSE pc' = "raised" /\ err' = "KeyError"
                 /\ err_msg' = NoMessage
         ELSE /\ pc' = "raised"
              /\ err' = "IOError"
              /\ err_msg' = LoadErrorMessage(OutResultsPath)
              /\ UNCHANGED <<results, num_rep_cv, train_set_size>>
    /\ UNCHANGED <<fi_call, args, num_procs, id_list, rep, ds_idx, train_set,
                   test_set, disk, ckpt, rep_log, fit_log, at_save, summarized,
                   prior,
                   file_at_start>>

\* run() lines 139-141 and _run_cv (lines 150-174) up to its loop
RunCV ==
    /\ pc = "prepared"
    /\ ~FileNonEmpty(disk)
    /\ IF num_procs > 1
       THEN pc' = "raised" /\ err' = "NotImplementedError"
       ELSE pc' = "cv_split" /\ err' = "none"
    /\ err_msg' = NoMessage
    /\ rep' = 0
    /\ UNCHANGED <<fi_call, args, num_rep_cv, num_procs, id_list,
                   train_set_size, results, ds_idx, train_set, test_set, disk,
                   ckpt, io_log, rep_log, fit_log, at_save, summarized, prior,
                   file_at_start>>

\* _single_run_cv lines 180-182: shuffle in place, then cut the split
SingleRunSplit ==
    /\ pc = "cv_split"
    /\ \E shuffled \in Shuffles(id_list) :
         /\ id_list' = shuffled
         /\ train_set' = TrainSet(shuffled, train_set_size)
         /\ test_set' = TestSet(shuffled, TrainSet(shuffled, train_set_size))
    /\ rep_log' = Append(rep_log, rep)
    /\ ds_idx' = 1
    /\ fit_log' = << >>
    /\ pc' = "cv_mod"
    /\ UNCHANGED <<fi_call, args, err, err_msg, num_rep_cv, num_procs, train_set_size,
                   results, rep, disk, ckpt, io_log, at_save, summarized, prior,
                   file_at_start>>

\* _single_run_cv lines 184-208: one modality of the repetition
SingleRunModality ==
    /\ pc = "cv_mod"
    /\ LET ds == Modalities[ds_idx]
           st == ModalityStages(ds, train_set, test_set)
           with_attr == [results EXCEPT
                           !.attr = Put(@, RecordKey(rep, ds),
                                        st.feat_importance)]
           with_pred == [with_attr EXCEPT
                           !.pred = Put(@, RecordKey(rep, ds),
                                        st.test_data.rows)]
       IN \E fail \in FailPoints :
            /\ fit_log' = st.fits
            /\ err_msg' = NoMessage
            /\ results' = CASE fail = "none" -> with_pred
                            [] fail = "eval" -> with_attr
                            [] fail = "optimize" -> results
            /\ IF fail = "none"
               THEN /\ err' = "none"
                    /\ ds_idx' = ds_idx + 1
                    /\ pc' = IF ds_idx < Len(Modalities) THEN "cv_mod" ELSE "cv_end"
               ELSE /\ err' = "FitError"
                    /\ ds_idx' = ds_idx
                    /\ pc' = "raised"
    /\ UNCHANGED <<fi_call, args, num_rep_cv, num_procs, id_list,
                   train_set_size, rep, train_set, test_set, disk, ckpt, io_log,
                   rep_log, at_save, summarized, prior,
                   file_at_start>>

\* line 211 with the request ignored
CheckpointingIgnored(a) == FALSE

\* self._checkpointing (line 66), tested after the modalities' loop (line 211)
Checkpointing(a) == a.checkpointing

\* _single_run_cv lines 210-212 and the step of _run_cv's loop (line 173)
SingleRunEnd ==
    /\ pc = "cv_end"
    /\ IF Checkpointing(args)
       THEN /\ ckpt' = [exists |-> TRUE, content |-> results]
            /\ io_log' = Append(io_log, "dump")
       ELSE UNCHANGED <<ckpt, io_log>>
    /\ rep' = rep + 1
    /\ pc' = IF rep + 1 \in RepetitionIds(num_rep_cv) THEN "cv_split" ELSE "save"
    /\ UNCHANGED <<fi_call, args, err, err_msg, num_rep_cv, num_procs, id_list,
                   train_set_size, results, ds_idx, train_set, test_set, disk,
                   rep_log, fit_log, at_save, summarized, prior,
                   file_at_start>>

\* run() line 142: save (lines 349-363); the write may stop after any entry
Save ==
    /\ pc = "save"
    /\ io_log' = Append(io_log, "save")
    /\ LET full == PickleDump(OutDict)
       IN \E written \in 0..Len(full) :
            /\ disk' = [exists |-> TRUE, bytes |-> SubSeq(full, 1, written)]
            /\ IF written = Len(full)
               THEN /\ pc' = "summarize"
                    /\ err' = "none"
                    /\ err_msg' = NoMessage
                    /\ at_save' = [has |-> TRUE, dict |-> OutDict]
               ELSE /\ pc' = "raised"
                    /\ err' = "IOError"
                    /\ err_msg' = SaveErrorMessage(OutResultsPath)
                    /\ at_save' = NoSnapshot
    /\ UNCHANGED <<fi_call, args, num_rep_cv, num_procs, id_list,
                   train_set_size, results, rep, ds_idx, train_set, test_set,
                   ckpt, rep_log, fit_log, summarized, prior,
                   file_at_start>>

\* run() line 144
Summarize ==
    /\ pc = "summarize"
    /\ summarized' = results
    /\ pc' = "visualize"
    /\ UNCHANGED <<fi_call, args, err, err_msg, num_rep_cv, num_procs, id_list,
                   train_set_size, results, rep, ds_idx, train_set, test_set,
                   disk, ckpt, io_log, rep_log, fit_log, at_save, prior,
                   file_at_start>>

\* run() lines 145-147
Visualize ==
    /\ pc = "visualize"
    /\ pc' = "done"
    /\ UNCHANGED <<fi_call, args, err, err_msg, num_rep_cv, num_procs, id_list,
                   train_set_size, results, rep, ds_idx, train_set, test_set,
                   disk, ckpt, io_log, rep_log, fit_log, at_save, summarized,
                   prior,
                   file_at_start>>

\* the program is started again with the same arguments: a new workflow object
\* (__init__, lines 28-78); only the files are kept
Restart ==
    /\ pc \in {"done", "raised"}
    /\ prior' = IF pc = "done" /\ ~prior.has
                THEN [has |-> TRUE, records |-> summarized]
                ELSE prior
    /\ pc' = "start"
    /\ err' = "none"
    /\ err_msg' = NoMessage
    /\ num_rep_cv' = args.num_rep_cv
    /\ num_procs' = args.num_procs
    /\ id_list' = << >>
    /\ train_set_size' = 0
    /\ results' = EmptyResults
    /\ rep' = 0
    /\ ds_idx' = 1
    /\ train_set' = << >>
    /\ test_set' = {}
    /\ file_at_start' = FALSE
    /\ io_log' = << >>
    /\ rep_log' = << >>
    /\ fit_log' = << >>
    /\ summarized' = EmptyResults
    /\ UNCHANGED <<fi_call, args, disk, ckpt, at_save>>

\* the process is killed between two steps of run() and the program is
\* started again: what the workflow object held is lost, the files stay
Crash ==
    /\ pc \in {"prepared", "cv_split", "cv_mod", "cv_end", "save",
               "summarize", "visualize"}
    /\ pc' = "start"
    /\ err' = "none"
    /\ err_msg' = NoMessage
    /\ num_rep_cv' = args.num_rep_cv
    /\ num_procs' = args.num_procs
    /\ id_list' = << >>
    /\ train_set_size' = 0
    /\ results' = EmptyResults
    /\ rep' = 0
    /\ ds_idx' = 1
    /\ train_set' = << >>
    /\ test_set' = {}
    /\ file_at_start' = FALSE
    /\ io_log' = << >>
    /\ rep_log' = << >>
    /\ fit_log' = << >>
    /\ summarized' = EmptyResults
    /\ UNCHANGED <<fi_call, args, disk, ckpt, at_save, prior>>

Next ==
    \/ Prepare
    \/ Load
    \/ RunCV
    \/ SingleRunSplit
    \/ SingleRunModality
    \/ SingleRunEnd
    \/ Save
    \/ Summarize
    \/ Visualize
    \/ Restart
    \/ Crash

Spec == Init /\ [][Next]_vars

\* ------------------------------- _get_feature_importance called on its own
\* the indices of S in increasing order, as get_support(indices=True) gives
RECURSIVE Sorted(_)
Sorted(S) ==
    IF S = {} THEN << >>
    ELSE LET lo == CHOOSE x \in S : \A y \in S : x <= y
         IN <<lo>> \o Sorted(S \ {lo})

Weights == {"w1", "w2"}

\* fitted feature selectors over n features, and a reducer without get_support
Selectors(n) ==
    {Object({"get_support"}, Sorted(S), << >>) : S \in (SUBSET (1..n)) \ {{}}}
Reducer == Object({}, << >>, << >>)

\* fitted estimators over k inputs, with either, or no, importance attribute
Estimators(k) ==
    {Object(a, << >>, w) : a \in {{}, {"coef_"}, {"feature_importances_"}},
                           w \in [1..k -> Weights]}

Scaler == Object({}, << >>, << >>)

\* the arguments of a call: the estimator is fitted on what the stage before
\* it puts out
FICalls ==
    {[made |-> TRUE, returned |-> FALSE, est_name |-> name,
      pipeline |-> Pipeline(Scaler, d, e), num_features |-> n,
      result |-> None] :
        name \in DOMAIN importance_attr,
        n \in 1..MaxFeatures,
        d \in Selectors(MaxFeatures) \cup {Reducer},
        e \in UNION {Estimators(k) : k \in 1..MaxFeatures}}

WellFormedCall(c) ==
    LET d == c.pipeline.steps[2].step
        e == c.pipeline.steps[3].step
    IN IF "get_support" \in d.attrs
       THEN /\ \A j \in DOMAIN d.support : d.support[j] <= c.num_features
            /\ Len(e.importance) = Len(d.support)
       ELSE Len(e.importance) = 1

InitFI ==
    /\ fi_call \in {c \in FICalls : WellFormedCall(c)}
    /\ args = [num_samples |-> 1, train_perc |-> 1, num_rep_cv |-> 0,
               grid_search_level |-> "Light", num_procs |-> 1,
               checkpointing |-> FALSE, covariates |-> NoCovariates]
    /\ pc = "start"
    /\ err = "none"
    /\ err_msg = NoMessage
    /\ num_rep_cv = args.num_rep_cv
    /\ num_procs = args.num_procs
    /\ id_list = << >>
    /\ train_set_size = 0
    /\ results = EmptyResults
    /\ rep = 0
    /\ ds_idx = 1
    /\ train_set = << >>
    /\ test_set = {}
    /\ disk = NoFile
    /\ ckpt = NoCheckpoint
    /\ file_at_start = FALSE
    /\ io_log = << >>
    /\ rep_log = << >>
    /\ fit_log = << >>
    /\ at_save = NoSnapshot
    /\ summarized = EmptyResults
    /\ prior = NoPrior

\* the call returns
GetFeatureImportanceReturns ==
    /\ fi_call.made
    /\ ~fi_call.returned
    /\ fi_call' = [fi_call EXCEPT
                     !.returned = TRUE,
                     !.result = GetFeatureImportance(fi_call.est_name,
                                    fi_call.pipeline, fi_call.num_features, NaN)]
    /\ UNCHANGED <<args, pc, err, err_msg, num_rep_cv, num_procs, id_list,
                   train_set_size, results, rep, ds_idx, train_set, test_set,
                   disk, ckpt, file_at_start, io_log, rep_log, fit_log,
                   at_save, summarized, prior>>

NextFI == GetFeatureImportanceReturns

SpecFI == InitFI /\ [][NextFI]_vars

\* ======================================================================
\* Properties
\* ======================================================================

\* a split has been drawn in this start of the program
SplitDrawn == rep_log # << >>

\* C1: in every repetition the train set and the test set are disjoint and
\* their union is the whole sample universe, also once earlier repetitions
\* have shuffled the shared id list in place.
C1_SplitPartitionsUniverse ==
    SplitDrawn =>
        /\ Range(train_set) \cap test_set = {}
        /\ Range(train_set) \cup test_set = Universe
        /\ Cardinality(Range(train_set)) = Len(train_set)

C1_Witness ==
    /\ pc = "cv_mod"
    /\ Len(rep_log) >= 2
    /\ id_list # SampletIds
    /\ test_set # {}
    /\ Len(train_set) >= 2

\* the size the specification gives for the train set
ClampedFloor(n, tp) ==
    LET f == (tp * n) \div 100
    IN IF f < 1 THEN 1 ELSE IF f > n THEN n ELSE f

\* C2: in every repetition the train set holds clamp(floor(train_fraction * N),
\* 1, N) samples, the same number in every repetition of a run; a fraction of
\* 0.01 on 10 samples gives a train set of size 1.
C2_TrainSetSizeIsClampedFloor ==
    /\ TrainSetSize(10, 1) = 1
    /\ SplitDrawn =>
        /\ Len(train_set) = ClampedFloor(args.num_samples, args.train_perc)
        /\ Cardinality(test_set) =
              args.num_samples - ClampedFloor(args.num_samples, args.train_perc)

C2_Witness ==
    /\ pc = "cv_mod"
    /\ Len(rep_log) >= 2
    /\ args.train_perc = 1
    /\ args.num_samples = 3
    /\ Len(train_set) = 1

\* the configuration run() must refuse
ConfigInvalid ==
    \/ args.num_rep_cv <= 1
    \/ args.train_perc <= 0
    \/ args.train_perc >= 100
    \/ Lower(args.grid_search_level) \notin GRIDSEARCH_LEVELS

\* C3: with a repetition count <= 1, a train fraction <= 0 or >= 1, or an
\* unknown grid-search level, run() ends in a configuration error before any
\* split is drawn, any result is recorded or the result file is read or written.
C3_InvalidConfigRaisesFirst ==
    ConfigInvalid =>
        /\ pc \in {"start", "raised"}
        /\ pc = "raised" => err = "ValueError"
        /\ rep_log = << >>
        /\ id_list = << >>
        /\ train_set = << >>
        /\ results = EmptyResults
        /\ io_log = << >>
        /\ ~FileNonEmpty(disk)
        /\ ~ckpt.exists

C3_Witness ==
    /\ pc = "raised"
    /\ err = "ValueError"
    /\ args.num_rep_cv = 1
    /\ TrainPercOk(args.train_perc)
    /\ GridSearchOk(args.grid_search_level)

\* run() has returned, or has raised because the parallel path is not there
RunOverWithoutStepFailure ==
    \/ pc = "done"
    \/ pc = "raised" /\ err = "NotImplementedError"

\* every (repetition, modality) pair of the configured run is in r
AllRecorded(r) ==
    /\ DOMAIN r.pred = RepetitionIds(args.num_rep_cv) \X Range(Modalities)
    /\ DOMAIN r.attr = RepetitionIds(args.num_rep_cv) \X Range(Modalities)

\* the run ids 0 .. n-1 in order
InOrder(n) == [i \in 1..n |-> i - 1]

Did(op) == \E i \in DOMAIN io_log : io_log[i] = op

\* C4: a non-empty result file at the start of run() means load, no
\* repetition and no save; otherwise all repetitions are executed and the
\* results are then saved.
C4_LoadElseRunAllAndSave ==
    (RunOverWithoutStepFailure /\ ~ConfigInvalid) =>
        IF file_at_start
        THEN Did("load") /\ rep_log = << >> /\ ~Did("save")
        ELSE /\ ~Did("load")
             /\ rep_log = InOrder(args.num_rep_cv)
             /\ Did("save")

\* C5: once a start of the program has completed, a later start on the same
\* output location executes no repetition and saves nothing: it finds the
\* artifact, reloads it and summarizes the records the first one summarized.
C5_SecondRunReloads ==
    prior.has =>
        /\ FileNonEmpty(disk)
        /\ rep_log = << >>
        /\ ~Did("save")
        /\ pc \in {"summarize", "visualize", "done"} =>
              Did("load") /\ results = prior.records
        /\ pc \in {"visualize", "done"} => summarized = prior.records

C5_Witness ==
    /\ prior.has
    /\ pc = "done"
    /\ summarized = prior.records
    /\ AllRecorded(summarized)
    /\ args.num_rep_cv = 3

\* C6: summarize() is reached only with every repetition's results present,
\* either computed in full and saved or reloaded from a saved state that holds
\* them all, and visualize() only after summarize().
C6_SummarizeOnlyOnAllRepetitions ==
    /\ pc \in {"summarize", "visualize", "done"} =>
          /\ AllRecorded(results)
          /\ \/ /\ rep_log = InOrder(args.num_rep_cv)
                /\ Did("save")
                /\ PickleOk(disk.bytes)
                /\ PickleLoad(disk.bytes)["results"] = results
             \/ Did("load") /\ rep_log = << >>
    /\ pc \in {"visualize", "done"} => summarized = results
    /\ pc \notin {"visualize", "done"} => summarized = EmptyResults

C6_Witness ==
    /\ pc = "visualize"
    /\ rep_log = InOrder(3)
    /\ AllRecorded(summarized)

\* C7: save() followed by load() is a round trip: every attribute named in
\* results_to_save has, after load(), the value it had when save() pickled it.
C7_SaveLoadRoundTrip ==
    (at_save.has /\ Did("load") /\ pc \in {"summarize", "visualize", "done"}) =>
        \A var \in Range(results_to_save) : GetAttr(var) = at_save.dict[var]

C7_Witness ==
    /\ at_save.has
    /\ Did("load")
    /\ pc = "summarize"
    /\ AllRecorded(results)
    /\ train_set_size = 2

\* C8: a requested worker count above the number of processing units is
\* reduced to that number and never makes the run fail: the run goes on to
\* execute its repetitions.
C8_ClampedCountNeverFails ==
    (pc \notin {"start", "prepared"} /\ ~ConfigInvalid /\ ~file_at_start
        /\ num_procs < args.num_procs) =>
            /\ ~(pc = "raised" /\ err = "NotImplementedError")
            /\ SplitDrawn \/ pc = "cv_split"

\* C9: sequential execution is the default: with the default worker count
\* _run_cv runs the repetitions one at a time in the order 0 .. num_rep_cv-1.
C9_DefaultIsSequential ==
    (pc \notin {"start", "prepared"} /\ ~ConfigInvalid /\ ~file_at_start
        /\ args.num_procs = DEFAULT_NUM_PROCS) =>
            /\ ~(pc = "raised" /\ err = "NotImplementedError")
            /\ rep_log = InOrder(Len(rep_log))
            /\ pc \in {"summarize", "visualize", "done"} =>
                  rep_log = InOrder(args.num_rep_cv)

\* C10: every fit of a modality (imputation, preprocessing, deconfounding,
\* pipeline optimization) is given values of train samples only; no value of a
\* test sample reaches a fit, so no fitted object depends on a test row.
C10_FitsSeeTrainOnly ==
    \A i \in DOMAIN fit_log :
        /\ Seen(fit_log[i]) \cap test_set = {}
        /\ Seen(fit_log[i]) \subseteq Range(train_set)

C10_Witness ==
    /\ pc = "cv_mod"
    /\ test_set # {}
    /\ Len(fit_log) = 4
    /\ {fit_log[i].stage : i \in DOMAIN fit_log} =
          {"impute", "preprocess", "deconfound", "optimize"}
    /\ \A i \in DOMAIN fit_log : fit_log[i].X = Range(train_set)

\* a (repetition, modality) record is being written by this step
Writes(k) ==
    \/ k \in DOMAIN results'.pred /\ k \notin DOMAIN results.pred
    \/ k \in DOMAIN results.pred /\ results'.pred[k] # results.pred[k]
    \/ k \in DOMAIN results.pred /\ k \notin DOMAIN results'.pred

\* a step of a cross-validation in progress
InCV == pc \in {"cv_split", "cv_mod", "cv_end"} /\ pc' # "start"

AllKeys == (0..MaxRep) \X Range(Modalities)

\* C11: within a fresh run every (repetition, modality) pair is written
\* exactly once: a step of the cross-validation writes only the record of the
\* current repetition and modality, that record did not exist before, it holds
\* the test sample ids of its repetition, and no record of an earlier
\* repetition is changed; once the loop is over there are exactly
\* N * M records.
C11_EachPairWrittenOnce ==
    /\ [](pc = "save" =>
            /\ Cardinality(DOMAIN results.pred) = num_rep_cv * Len(Modalities)
            /\ DOMAIN results.pred = RepetitionIds(num_rep_cv) \X Range(Modalities))
    /\ [][InCV =>
            \A k \in AllKeys :
                Writes(k) =>
                    /\ k = <<rep, Modalities[ds_idx]>>
                    /\ k \notin DOMAIN results.pred
                    /\ results'.pred[k] = test_set]_vars

C11_Witness ==
    /\ pc = "save"
    /\ num_rep_cv = 3
    /\ Cardinality(DOMAIN results.pred) = 6
    /\ results.pred[<<0, "m1">>] # results.pred[<<2, "m1">>]

\* the number of flushes of the accumulator in this start of the program
Dumps == Cardinality({i \in DOMAIN io_log : io_log[i] = "dump"})

\* C12: with checkpointing the accumulator is flushed once per completed
\* repetition, holding every modality of the repetitions completed so far,
\* and the flush precedes the next repetition's split; without checkpointing
\* nothing is flushed and the only write of a start is the final save.
C12_OneFlushPerRepetition ==
    /\ SplitDrawn /\ args.checkpointing =>
          /\ Dumps = rep
          /\ Len(rep_log) \in {Dumps, Dumps + 1}
          /\ pc = "cv_split" => Len(rep_log) = Dumps
          /\ rep > 0 =>
                /\ ckpt.exists
                /\ DOMAIN ckpt.content.pred = (0..(rep - 1)) \X Range(Modalities)
                /\ \A k \in DOMAIN ckpt.content.pred :
                      ckpt.content.pred[k] = results.pred[k]
    /\ ~args.checkpointing =>
          /\ Dumps = 0
          /\ ckpt = NoCheckpoint
          /\ Len(io_log) <= 1
          /\ pc \in {"cv_split", "cv_mod", "cv_end", "save"} => io_log = << >>

C12_Witness ==
    /\ args.checkpointing
    /\ pc = "cv_mod"
    /\ ds_idx = 2
    /\ rep = 2
    /\ Dumps = 2
    /\ DOMAIN ckpt.content.pred # DOMAIN results.pred

\* the result file holds what a completed run saved
ArtifactComplete ==
    /\ PickleOk(disk.bytes)
    /\ "results" \in DOMAIN PickleLoad(disk.bytes)
    /\ AllRecorded(PickleLoad(disk.bytes)["results"])

\* the checkpoint file holds every record of the repetitions completed so far
CompletedOnDisk ==
    /\ ckpt.exists
    /\ \A k \in (0..(rep - 1)) \X Range(Modalities) :
          /\ k \in DOMAIN ckpt.content.pred
          /\ ckpt.content.pred[k] = results.pred[k]

\* C13: with checkpointing, wherever a run fails or is killed the records of
\* its completed repetitions are on disk, and a start of the program takes the
\* reload branch only on the artifact of a completed run: it otherwise
\* recomputes every repetition.
C13_CrashLosesAtMostInFlight ==
    args.checkpointing =>
        /\ (SplitDrawn /\ rep > 0) => CompletedOnDisk
        /\ Did("load") => ArtifactComplete
        /\ (pc \in {"summarize", "visualize", "done"} /\ ~Did("load")) =>
              rep_log = InOrder(args.num_rep_cv)

\* the first half of C13 alone: the completed repetitions are on disk
C13_CompletedRepetitionsOnDisk ==
    (args.checkpointing /\ SplitDrawn /\ rep > 0) => CompletedOnDisk

\* a stage of the current modality has raised
StepFailed == pc = "raised" /\ err = "FitError"

\* C14: when a fit, optimization or evaluation step of a modality fails, the
\* failure ends the run and the accumulator holds neither a feature
\* importance nor predictions for that (repetition, modality) pair.
C14_FailedModalityRecordsNothing ==
    StepFailed =>
        /\ RecordKey(rep, Modalities[ds_idx]) \notin DOMAIN results.attr
        /\ RecordKey(rep, Modalities[ds_idx]) \notin DOMAIN results.pred

\* the part of C14 that the optimizer's failure and the predictions satisfy
C14_NoPredictionsOfFailedModality ==
    StepFailed =>
        /\ RecordKey(rep, Modalities[ds_idx]) \notin DOMAIN results.pred
        /\ \A k \in DOMAIN results.attr :
              k \in DOMAIN results.pred \/ k = RecordKey(rep, Modalities[ds_idx])

\* the error a failed save() or load() must end the run with
RaisedIOErrorWithPath ==
    /\ pc = "raised"
    /\ err = "IOError"
    /\ err_msg.path = OutResultsPath

DimRedStage == fi_call.pipeline.steps[2].step
EstimatorStage == fi_call.pipeline.steps[3].step

\* C16: _get_feature_importance returns a vector exactly when the
\* dimensionality-reduction stage exposes get_support and the estimator its
\* importance attribute; the vector has one entry per feature, the estimator's
\* importances at the selected indices and NaN elsewhere; otherwise it
\* returns None.
C16_FeatureImportanceWhenAvailable ==
    (fi_call.made /\ fi_call.returned) =>
        IF /\ "get_support" \in DimRedStage.attrs
           /\ importance_attr[fi_call.est_name] \in EstimatorStage.attrs
        THEN /\ fi_call.result.present
             /\ Len(fi_call.result.vec) = fi_call.num_features
             /\ \A j \in DOMAIN DimRedStage.support :
                   fi_call.result.vec[DimRedStage.support[j]]
                       = EstimatorStage.importance[j]
             /\ \A i \in 1..fi_call.num_features :
                   (\A j \in DOMAIN DimRedStage.support :
                       DimRedStage.support[j] # i)
                   => fi_call.result.vec[i] = NaN
        ELSE fi_call.result = None

\* what the code does return: None for every pipeline
C16_AlwaysNone ==
    (fi_call.made /\ fi_call.returned) => fi_call.result = None

\* the modality whose stages ran last, in the states that follow them
AfterModality == (pc = "cv_mod" /\ ds_idx > 1) \/ pc = "cv_end"
LastModality == Modalities[ds_idx - 1]

\* the fitting stages the specification gives for a modality, in order
ExpectedStages(ds) ==
    (IF MissingFlag[ds] THEN <<"impute">> ELSE << >>)
    \o <<"preprocess">>
    \o (IF args.covariates # NoCovariates THEN <<"deconfound">> ELSE << >>)
    \o <<"optimize">>

\* the fitting stages the code runs: deconfounding always
StagesRun(ds) ==
    (IF MissingFlag[ds] THEN <<"impute">> ELSE << >>)
    \o <<"preprocess", "deconfound", "optimize">>

DeconfounderFitOnTrainOnly ==
    \A i \in DOMAIN fit_log :
        fit_log[i].stage = "deconfound" =>
            /\ fit_log[i].y = {}
            /\ fit_log[i].X = Range(train_set)
            /\ fit_log[i].covar = Range(train_set)

\* C17: the stages of a modality run in the order impute, preprocess,
\* deconfound, optimize, evaluate; imputation only for a modality flagged as
\* having missing values, deconfounding only if covariates are configured;
\* the deconfounder is fit with train features and train covariates, never
\* with targets.
C17_StagesInOrderAndConditional ==
    AfterModality =>
        /\ [i \in DOMAIN fit_log |-> fit_log[i].stage] = ExpectedStages(LastModality)
        /\ RecordKey(rep, LastModality) \in DOMAIN results.pred
        /\ DeconfounderFitOnTrainOnly

\* what holds of C17: the order, the condition on imputation and the
\* deconfounder's inputs, with the deconfounding stage in every run
C17_StagesAsRun ==
    AfterModality =>
        /\ [i \in DOMAIN fit_log |-> fit_log[i].stage] = StagesRun(LastModality)
        /\ RecordKey(rep, LastModality) \in DOMAIN results.pred
        /\ DeconfounderFitOnTrainOnly

\* C18: with at least two samples and a train fraction strictly between 0
\* and 1, the train set and the test set of every repetition are both
\* non-empty (1 <= train size <= N - 1); with a single sample the train set
\* holds it and the test set is empty.
C18_BothPartitionsNonEmpty ==
    (SplitDrawn /\ args.train_perc \in 1..99) =>
        IF args.num_samples >= 2
        THEN /\ 1 <= Len(train_set)
             /\ Len(train_set) <= args.num_samples - 1
             /\ Len(train_set) = train_set_size
             /\ test_set # {}
        ELSE /\ Len(train_set) = 1
             /\ test_set = {}

C18_Witness ==
    /\ SplitDrawn
    /\ args.num_samples = 3
    /\ args.train_perc = 99
    /\ Len(train_set) = 2
    /\ Cardinality(test_set) = 1
====
